---- MODULE Spec2Model ----
(***************************************************************************)
(* A model of RealtimeClient (packages/browser/src/WebRTC/RealtimeClient.ts) *)
(* and of the conversation locator / patcher (WebRTC/items.ts): the client's *)
(* fields, the WebRTC objects it acquires, every start() call with its       *)
(* asynchronous boundaries, stop(), sendClientEvent(), the MediaRecorder     *)
(* callback and the dispatch table of server events.                         *)
(*                                                                           *)
(* Objects created by the g-th call of start() carry the number g; a client  *)
(* field holds 0 for undefined.  JavaScript strings are sequences of         *)
(* one-character strings, an optional string is a record with a def flag.    *)
(***************************************************************************)
EXTENDS Integers, Sequences, FiniteSets

\* ------------------------------------------------------------------ bounds
MaxStarts == 2      \* calls of start() in one behaviour
MaxEvents == 3      \* server messages in one behaviour of the event engine
MaxMessages == 1    \* server messages in one behaviour of the life cycle
MaxChunks == 1      \* chunks the recorders deliver to one buffer
MaxBuffer == 3      \* chunks of a buffer handed to the export operations

Gens == 1..MaxStarts

\* ------------------------------------------------------- JavaScript values
Undefined == [def |-> FALSE, s |-> <<>>]
Str(s)    == [def |-> TRUE, s |-> s]

\* ToString of an optional string: undefined becomes the text "undefined"
JSToString(v) ==
  IF v.def THEN v.s ELSE <<"u", "n", "d", "e", "f", "i", "n", "e", "d">>

\* the += of a string onto an optional string
PlusAssign(v, d) == Str(JSToString(v) \o d)

\* --------------------------------------------------------------- the wire
Ids == {"a1", "a2"}
NoId == "undefined"
Deltas == {<<"a">>, <<"b">>}
Transcripts == {<<"T">>}
ContentIndexes == {0, 1}
\* a session descriptor: a property the server left out reads "undefined"
NoSession == [present |-> FALSE, model |-> "undefined", voice |-> "undefined"]
SessionX == [present |-> TRUE, model |-> "m", voice |-> "undefined"]
SessionY == [present |-> TRUE, model |-> "undefined", voice |-> "v"]
Sessions == {SessionX, SessionY}

AudioElement(t) == [type |-> "input_audio", transcript |-> t, text |-> Undefined]
TextElement == [type |-> "text", transcript |-> Undefined, text |-> Str(<<"H", "i">>)]

\* an item: content is meaningful only when hasContent
Item(id, type, role, hasContent, content) ==
  [id |-> id, type |-> type, role |-> role,
   hasContent |-> hasContent, content |-> content]

NoItem == Item(NoId, "none", "none", FALSE, <<>>)

\* the content sequences an item arrives with
Contents ==
  { [has |-> FALSE, c |-> <<>>],
    [has |-> TRUE, c |-> <<>>],
    [has |-> TRUE, c |-> <<AudioElement(Undefined)>>],
    [has |-> TRUE, c |-> <<TextElement>>] }

CreatedItems ==
  { Item(i, "message", "user", k.has, k.c) : i \in Ids, k \in Contents }

Outputs ==
  { Item(i, "message", "assistant", TRUE, <<TextElement>>) : i \in Ids }
  \cup { Item(i, "message", "assistant", FALSE, <<>>) : i \in Ids }
  \cup { Item(i, "function_call", "assistant", FALSE, <<>>) : i \in Ids }

OutputLists ==
  {<<>>} \cup { <<o>> : o \in Outputs }
         \cup { <<o1, o2>> : o1 \in Outputs, o2 \in Outputs }

\* a server event; the fields a type does not carry keep their defaults
NoEvent ==
  [type |-> "none", item_id |-> NoId, content_index |-> 0, delta |-> <<>>,
   transcript |-> <<>>, item |-> NoItem, hasOutput |-> FALSE, output |-> <<>>,
   session |-> NoSession]

ErrorEvent == [NoEvent EXCEPT !.type = "error"]
TextDeltaEvent == [NoEvent EXCEPT !.type = "response.text.delta"]
UnhandledEvent == [NoEvent EXCEPT !.type = "input_audio_buffer.speech_started"]
SessionCreated(s) == [NoEvent EXCEPT !.type = "session.created", !.session = s]
SessionUpdated(s) == [NoEvent EXCEPT !.type = "session.updated", !.session = s]
ItemCreated(it) == [NoEvent EXCEPT !.type = "conversation.item.created", !.item = it]
TranscriptDelta(i, k, d) ==
  [NoEvent EXCEPT !.type = "response.audio_transcript.delta",
                  !.item_id = i, !.content_index = k, !.delta = d]
TranscriptDone(i, k, t) ==
  [NoEvent EXCEPT !.type = "response.audio_transcript.done",
                  !.item_id = i, !.content_index = k, !.transcript = t]
TranscriptionCompleted(i, k, t) ==
  [NoEvent EXCEPT !.type = "conversation.item.input_audio_transcription.completed",
                  !.item_id = i, !.content_index = k, !.transcript = t]
ResponseDone(has, outs) ==
  [NoEvent EXCEPT !.type = "response.done", !.hasOutput = has, !.output = outs]

\* ------------------------------------------------- notifications (emitter)
Note(kind, conv, sess, chunks) ==
  [kind |-> kind, conversation |-> conv, session |-> sess, chunks |-> chunks,
   event |-> NoEvent]
ConversationChangedEvent(conv) == Note("conversationChanged", conv, NoSession, <<>>)
SessionCreatedEvent(s) == Note("sessionCreated", <<>>, s, <<>>)
SessionUpdatedEvent(s) == Note("sessionUpdated", <<>>, s, <<>>)
RecordedAudioChangedEvent(chunks) == Note("recordedAudioChanged", <<>>, NoSession, chunks)
RealtimeServerEventEvent(ev) ==
  [Note("serverEvent", <<>>, NoSession, <<>>) EXCEPT !.event = ev]

\* ------------------------------------------------------ locator (items.ts)
\* index of the first item whose id equals item_id, 0 when there is none
FindsLastItem(conv, item_id) ==
  LET hits == { k \in 1..Len(conv) : conv[k].id = item_id }
  IN  IF hits = {} THEN 0 ELSE CHOOSE k \in hits : \A j \in hits : k >= j
findConversationItem(conv, item_id) ==
  LET hits == { k \in 1..Len(conv) : conv[k].id = item_id }
  IN  IF hits = {} THEN 0 ELSE CHOOSE k \in hits : \A j \in hits : k <= j

\* item: index of the item or 0; found: a content element exists at
\* content_index; at: its place in the (1-based) content sequence
findConversationItemContent(conv, item_id, content_index) ==
  LET it == findConversationItem(conv, item_id)
  IN  IF it = 0 THEN [item |-> 0, found |-> FALSE, at |-> 0]
      ELSE IF ~conv[it].hasContent THEN [item |-> it, found |-> FALSE, at |-> 0]
      ELSE IF content_index + 1 \in 1..Len(conv[it].content)
           THEN [item |-> it, found |-> TRUE, at |-> content_index + 1]
           ELSE [item |-> it, found |-> FALSE, at |-> 0]

\* foundItem.content.push(el), after foundItem.content = [] when it is absent
PushContent(conv, it, el) ==
  [conv EXCEPT ![it].hasContent = TRUE,
               ![it].content = Append(IF conv[it].hasContent THEN @ ELSE <<>>, el)]

\* ------------------------------------------------------ patcher (items.ts)
PatchCreatesMissingItem(conv, ev) ==
  LET f == findConversationItemContent(conv, ev.item_id, ev.content_index)
      el == AudioElement(Str(ev.transcript))
  IN  IF f.item = 0
        THEN Append(conv, Item(ev.item_id, "message", "user", TRUE, <<el>>))
      ELSE IF ~f.found THEN PushContent(conv, f.item, el)
      ELSE IF conv[f.item].content[f.at].type # "input_audio" THEN conv
      ELSE [conv EXCEPT ![f.item].content[f.at].transcript = Str(ev.transcript)]
PatchPadsToIndex(conv, ev) ==
  LET f == findConversationItemContent(conv, ev.item_id, ev.content_index)
      old == IF f.item = 0 THEN <<>>
             ELSE IF conv[f.item].hasContent THEN conv[f.item].content ELSE <<>>
      padded == [k \in 1..(ev.content_index + 1) |->
                   IF k <= Len(old) THEN old[k]
                   ELSE IF k = ev.content_index + 1
                     THEN AudioElement(Str(ev.transcript))
                   ELSE AudioElement(Undefined)]
  IN  IF f.item = 0 THEN conv
      ELSE IF ~f.found
        THEN [conv EXCEPT ![f.item].hasContent = TRUE, ![f.item].content = padded]
      ELSE IF conv[f.item].content[f.at].type # "input_audio" THEN conv
      ELSE [conv EXCEPT ![f.item].content[f.at].transcript = Str(ev.transcript)]
patchConversationItemWithCompletedTranscript(conv, ev) ==
  LET f == findConversationItemContent(conv, ev.item_id, ev.content_index)
  IN  IF f.item = 0 THEN conv
      ELSE IF ~f.found THEN PushContent(conv, f.item, AudioElement(Str(ev.transcript)))
      ELSE IF conv[f.item].content[f.at].type # "input_audio" THEN conv
      ELSE [conv EXCEPT ![f.item].content[f.at].transcript = Str(ev.transcript)]

\* ------------------------------------- privateServerEventHandlers (pure part)
\* each handler maps the conversation and session to their new values and
\* to the notifications it dispatches, in order
Handled(conv, sess, n) == [conversation |-> conv, session |-> sess, notes |-> n]

\* error: logged only
ErrorEndsSession(conv, sess, ev) ==
  Handled(conv, NoSession, <<SessionUpdatedEvent(NoSession)>>)
HandleError(conv, sess, ev) == Handled(conv, sess, <<>>)

\* response.text.delta: an empty handler
HandleTextDelta(conv, sess, ev) == Handled(conv, sess, <<>>)

HandleSessionCreated(conv, sess, ev) ==
  Handled(conv, ev.session, <<SessionCreatedEvent(ev.session)>>)

SessionUpdatedMerges(conv, sess, ev) ==
  LET new == ev.session
      merged == [present |-> TRUE,
                 model |-> IF new.model = "undefined" THEN sess.model ELSE new.model,
                 voice |-> IF new.voice = "undefined" THEN sess.voice ELSE new.voice]
  IN  Handled(conv, merged, <<SessionUpdatedEvent(merged)>>)
HandleSessionUpdated(conv, sess, ev) ==
  Handled(conv, ev.session, <<SessionUpdatedEvent(ev.session)>>)

ItemCreatedPrepends(conv, sess, ev) ==
  LET c == <<ev.item>> \o conv
  IN  Handled(c, sess, <<ConversationChangedEvent(c)>>)
HandleItemCreated(conv, sess, ev) ==
  LET c == Append(conv, ev.item)
  IN  Handled(c, sess, <<ConversationChangedEvent(c)>>)

DeltaIgnoresType(conv, sess, ev) ==
  LET f == findConversationItemContent(conv, ev.item_id, ev.content_index)
  IN  IF f.item = 0 THEN Handled(conv, sess, <<>>)
      ELSE IF ~f.found
        THEN LET c == PushContent(conv, f.item, AudioElement(Str(ev.delta)))
             IN  Handled(c, sess, <<ConversationChangedEvent(c)>>)
      ELSE LET c == [conv EXCEPT ![f.item].content[f.at].transcript =
                                   PlusAssign(@, ev.delta)]
           IN  Handled(c, sess, <<ConversationChangedEvent(c)>>)
DeltaExtendsEveryElement(conv, sess, ev) ==
  LET f == findConversationItemContent(conv, ev.item_id, ev.content_index)
  IN  IF f.item = 0 THEN Handled(conv, sess, <<>>)
      ELSE IF ~f.found
        THEN LET c == PushContent(conv, f.item, AudioElement(Str(ev.delta)))
             IN  Handled(c, sess, <<ConversationChangedEvent(c)>>)
      ELSE IF conv[f.item].content[f.at].type # "input_audio"
        THEN Handled(conv, sess, <<>>)
      ELSE LET c == [conv EXCEPT ![f.item].content =
                       [j \in 1..Len(@) |->
                          IF @[j].type = "input_audio"
                            THEN [@[j] EXCEPT !.transcript = PlusAssign(@, ev.delta)]
                            ELSE @[j]]]
           IN  Handled(c, sess, <<ConversationChangedEvent(c)>>)
HandleTranscriptDelta(conv, sess, ev) ==
  LET f == findConversationItemContent(conv, ev.item_id, ev.content_index)
  IN  IF f.item = 0 THEN Handled(conv, sess, <<>>)
      ELSE IF ~f.found
        THEN LET c == PushContent(conv, f.item, AudioElement(Str(ev.delta)))
             IN  Handled(c, sess, <<ConversationChangedEvent(c)>>)
      ELSE IF conv[f.item].content[f.at].type # "input_audio"
        THEN Handled(conv, sess, <<>>)
      ELSE LET c == [conv EXCEPT ![f.item].content[f.at].transcript =
                                   PlusAssign(@, ev.delta)]
           IN  Handled(c, sess, <<ConversationChangedEvent(c)>>)

CompletedNotifiesBeforePatch(conv, sess, ev) ==
  LET c == patchConversationItemWithCompletedTranscript(conv, ev)
  IN  Handled(c, sess, <<ConversationChangedEvent(conv)>>)
HandleCompletedTranscript(conv, sess, ev) ==
  LET c == patchConversationItemWithCompletedTranscript(conv, ev)
  IN  Handled(c, sess, <<ConversationChangedEvent(c)>>)

\* one pass of the loop over response.output
RECURSIVE ResponseDoneOverwrites(_, _, _)
ResponseDoneOverwrites(conv, outs, n) ==
  IF outs = <<>> THEN [conversation |-> conv, notes |-> n]
  ELSE
    LET output == Head(outs)
        rest == Tail(outs)
        it == findConversationItem(conv, output.id)
    IN  IF output.type # "message" THEN ResponseDoneOverwrites(conv, rest, n)
        ELSE IF ~output.hasContent THEN ResponseDoneOverwrites(conv, rest, n)
        ELSE LET c == IF it = 0 THEN Append(conv, output)
                      ELSE [conv EXCEPT ![it] = output]
             IN  ResponseDoneOverwrites(c, rest, Append(n, ConversationChangedEvent(c)))
RECURSIVE ResponseDoneLoop(_, _, _)
ResponseDoneLoop(conv, outs, n) ==
  IF outs = <<>> THEN [conversation |-> conv, notes |-> n]
  ELSE
    LET output == Head(outs)
        rest == Tail(outs)
        it == findConversationItem(conv, output.id)
    IN  IF output.type # "message" THEN ResponseDoneLoop(conv, rest, n)
        ELSE IF ~output.hasContent THEN ResponseDoneLoop(conv, rest, n)
        ELSE IF it = 0
          THEN LET c == Append(conv, output)
               IN  ResponseDoneLoop(c, rest, Append(n, ConversationChangedEvent(c)))
        ELSE LET c == [conv EXCEPT
                         ![it].hasContent = TRUE,
                         ![it].content =
                            (IF conv[it].hasContent THEN @ ELSE <<>>) \o output.content]
             IN  ResponseDoneLoop(c, rest, Append(n, ConversationChangedEvent(c)))

ResponseDoneNotifiesAtEnd(conv, sess, ev) ==
  IF ~ev.hasOutput THEN Handled(conv, sess, <<>>)
  ELSE LET r == ResponseDoneLoop(conv, ev.output, <<>>)
       IN  Handled(r.conversation, sess,
                   [j \in 1..Len(r.notes) |->
                      ConversationChangedEvent(r.conversation)])
ResponseDoneNotifiesOnce(conv, sess, ev) ==
  IF ~ev.hasOutput THEN Handled(conv, sess, <<>>)
  ELSE LET r == ResponseDoneLoop(conv, ev.output, <<>>)
       IN  Handled(r.conversation, sess,
                   IF r.notes = <<>> THEN <<>>
                   ELSE <<ConversationChangedEvent(r.conversation)>>)
HandleResponseDone(conv, sess, ev) ==
  IF ~ev.hasOutput THEN Handled(conv, sess, <<>>)
  ELSE LET r == ResponseDoneLoop(conv, ev.output, <<>>)
       IN  Handled(r.conversation, sess, r.notes)

\* ------------------------------------ compareValuesIgnoreNullProperties
\* the values the function is given: null, undefined, numbers and plain
\* objects, whose properties are a function from the keys the object owns
NoProps == [k \in {} |-> 0]
JSNull == [t |-> "null", n |-> 0, props |-> NoProps]
JSUndefined == [t |-> "undefined", n |-> 0, props |-> NoProps]
Num(n) == [t |-> "number", n |-> n, props |-> NoProps]
Object(props) == [t |-> "object", n |-> 0, props |-> props]

PropertyKeys == {"p", "q"}
Leaves == {JSNull, JSUndefined, Num(1), Num(2)}
ObjectsOver(keys, values) ==
  { Object(f) : f \in UNION { [ks -> values] : ks \in SUBSET keys } }
\* objects of one key that hold leaves, and objects that hold leaves or those
InnerObjects == ObjectsOver({"p"}, Leaves)
Values == Leaves \cup ObjectsOver(PropertyKeys, Leaves \cup InnerObjects)

\* value[key]: undefined when the object does not own the key
Get(value, key) ==
  IF value.t = "object" /\ key \in DOMAIN value.props
    THEN value.props[key] ELSE JSUndefined

\* value == null
LooseNull(value) == value.t \in {"null", "undefined"}

\* isEqual of lodash: the same primitive, or objects that own the same keys
\* with values that are isEqual
RECURSIVE isEqual(_, _)
isEqual(a, b) ==
  IF a.t = "object" /\ b.t = "object"
    THEN /\ DOMAIN a.props = DOMAIN b.props
         /\ \A key \in DOMAIN a.props : isEqual(a.props[key], b.props[key])
    ELSE a.t = b.t /\ a.n = b.n

\* the loop runs over the keys of valueB and returns false at the first
\* key that differs
RECURSIVE compareValuesIgnoreNullProperties(_, _)
compareValuesIgnoreNullProperties(valueA, valueB) ==
  IF valueA.t = "object" /\ valueB.t = "object"
    THEN \A key \in DOMAIN valueB.props :
           IF LooseNull(valueB.props[key])
             THEN key \notin DOMAIN valueA.props \/ LooseNull(valueA.props[key])
             ELSE compareValuesIgnoreNullProperties(Get(valueA, key),
                                                    valueB.props[key])
    ELSE isEqual(valueA, valueB)

NoComparison == [a |-> JSUndefined, b |-> JSUndefined, done |-> FALSE, result |-> FALSE]

\* ----------------- session.created of the client that takes sessionRequested
\* a JavaScript value of a session parameter: a primitive is its value, an
\* object has an identity besides its structure; a key an object does not
\* own is missing (it reads undefined)
Prim(v) == [kind |-> "primitive", ref |-> "none", val |-> v]
Obj(ref, v) == [kind |-> "object", ref |-> ref, val |-> v]
Missing == [kind |-> "undefined", ref |-> "none", val |-> "undefined"]

\* the === of two values
StrictEquals(a, b) ==
  /\ a.kind = b.kind
  /\ IF a.kind = "object" THEN a.ref = b.ref ELSE a.val = b.val

ParamKeys == {"voice", "input_audio_transcription"}

\* Object.keys of a request
OwnKeys(req) == { k \in ParamKeys : req[k] # Missing }

\* the requests a caller constructs the client with
Requests ==
  { [k \in ParamKeys |-> IF k = "voice" THEN v ELSE t] :
      v \in {Missing, Prim("alloy"), Prim("echo")},
      t \in {Missing, Obj("sessionRequested", "whisper-1")} }
NoRequest == [k \in ParamKeys |-> Missing]

\* the session of a session.created message: its objects are made by
\* JSON.parse of that message
RequestedSession(v, t) ==
  [present |-> TRUE, model |-> "m", voice |-> v.val,
   parameters |-> [k \in ParamKeys |-> IF k = "voice" THEN v ELSE t]]
CreatedSessions ==
  { RequestedSession(v, t) :
      v \in {Prim("alloy"), Prim("echo")},
      t \in {Prim("null"), Obj("message", "whisper-1"), Obj("message", "other")} }

\* a client event; session holds the parameters it carries
NoClientEvent == [type |-> "none", session |-> NoRequest]
SessionUpdate(params) == [type |-> "session.update", session |-> params]

\* the handler: the assignment, the sessionCreated dispatch, then the loop
\* over the keys of the request and the send of what is left of the copy
HandleSessionCreatedRequested(req, ev) ==
  LET sess == ev.session
      mismatched == { k \in OwnKeys(req) :
                        ~StrictEquals(req[k], sess.parameters[k]) }
      updatedSession == [k \in ParamKeys |->
                           IF k \in mismatched THEN req[k] ELSE Missing]
  IN  [session |-> sess,
       notes |-> <<SessionCreatedEvent(sess)>>,
       send |-> IF mismatched # {} THEN <<SessionUpdate(updatedSession)>> ELSE <<>>,
       order |-> <<"sessionCreated">> \o
                 (IF mismatched # {} THEN <<"session.update">> ELSE <<>>)]

\* the dispatch table: no handler for a type leaves the state alone
processServerEvent(conv, sess, ev) ==
  CASE ev.type = "error" -> HandleError(conv, sess, ev)
    [] ev.type = "session.created" -> HandleSessionCreated(conv, sess, ev)
    [] ev.type = "session.updated" -> HandleSessionUpdated(conv, sess, ev)
    [] ev.type = "conversation.item.created" -> HandleItemCreated(conv, sess, ev)
    [] ev.type = "response.audio_transcript.delta" -> HandleTranscriptDelta(conv, sess, ev)
    [] ev.type = "response.text.delta" -> HandleTextDelta(conv, sess, ev)
    [] ev.type = "response.done" -> HandleResponseDone(conv, sess, ev)
    [] ev.type = "response.audio_transcript.done" ->
         HandleCompletedTranscript(conv, sess, ev)
    [] ev.type = "conversation.item.input_audio_transcription.completed" ->
         HandleCompletedTranscript(conv, sess, ev)
    [] OTHER -> Handled(conv, sess, <<>>)

\* receiveServerMessage: the handler, then the serverEvent passthrough
ForwardsBeforeHandling(conv, sess, ev) ==
  LET h == processServerEvent(conv, sess, ev)
  IN  [h EXCEPT !.notes = <<RealtimeServerEventEvent(ev)>> \o @]
receiveServerMessage(conv, sess, ev) ==
  LET h == processServerEvent(conv, sess, ev)
  IN  [h EXCEPT !.notes = Append(@, RealtimeServerEventEvent(ev))]

\* ----------------------------------------------------------------- state
VARIABLES
  \* the fields of RealtimeClient
  peerConnection, localMediaStream, dataChannel, mediaRecorder,
  audioChunks, conversation, session,
  sessionRequested,   \* constructor argument of the earlier client, else none
  compared,     \* a call of compareValuesIgnoreNullProperties: arguments, result
  \* the objects of the host: the audio element handed to the constructor,
  \* and per start() call its RTCPeerConnection, MediaStream track,
  \* MediaRecorder and RTCDataChannel
  audioElement, pcState, streamState, recState, dcState,
  call,         \* the latest call of start(): position, promise, rejection, stages
  \* what the last step did, for the properties
  \* sent: the client events the last step handed to a data channel
  last, pre, notes, released, sent, createdAt, run, nEvents

fields == <<peerConnection, localMediaStream, dataChannel, mediaRecorder,
            audioChunks, conversation, session, sessionRequested>>
host == <<audioElement, pcState, streamState, recState, dcState>>
history == <<last, pre, notes, released, sent, createdAt, run, nEvents>>
vars == <<fields, host, call, history, compared>>

\* the order of the stages of start()
StageOrder == <<"acquire", "recorder", "dataChannel", "session", "awaitOpen">>

NoCall ==
  [g |-> 0, pc |-> "none", promise |-> "none", err |-> "none", cause |-> "none",
   stages |-> <<>>, failed |-> "none", failedAt |-> 0,
   key |-> "none", request |-> "none"]

\* the whole mutable world as one value, so that stop() can run inside start()
World ==
  [peerConnection |-> peerConnection, localMediaStream |-> localMediaStream,
   dataChannel |-> dataChannel, mediaRecorder |-> mediaRecorder,
   audioChunks |-> audioChunks, conversation |-> conversation,
   session |-> session, audioElement |-> audioElement,
   pcState |-> pcState, streamState |-> streamState, recState |-> recState,
   dcState |-> dcState, released |-> <<>>, notes |-> <<>>, threw |-> FALSE]

Apply(w) ==
  /\ peerConnection' = w.peerConnection
  /\ localMediaStream' = w.localMediaStream
  /\ dataChannel' = w.dataChannel
  /\ mediaRecorder' = w.mediaRecorder
  /\ audioChunks' = w.audioChunks
  /\ conversation' = w.conversation
  /\ session' = w.session
  /\ sessionRequested' = sessionRequested
  /\ compared' = compared
  /\ audioElement' = w.audioElement
  /\ pcState' = w.pcState
  /\ streamState' = w.streamState
  /\ recState' = w.recState
  /\ dcState' = w.dcState
  /\ released' = w.released
  /\ notes' = w.notes

Release(what, g) == [what |-> what, g |-> g]

\* MediaRecorder.state as the code reads it: a recorder that was stopped and
\* still owes its last dataavailable is already "inactive"
RecorderActive(w) ==
  w.mediaRecorder # 0 /\ w.recState[w.mediaRecorder] = "recording"

\* RTCDataChannel.readyState = "open" on the channel the client holds
ChannelOpen(w) == w.dataChannel # 0 /\ w.dcState[w.dataChannel] = "open"

\* ---------------------------------------------------------------- stop()
\* MediaRecorder.stop(): InvalidStateError on an inactive recorder; a
\* recording one becomes inactive and still delivers the data it holds
RecorderStop(w, g) ==
  IF w.recState[g] = "recording"
  THEN [w EXCEPT !.recState[g] = "flushing",
                 !.released = Append(@, Release("recorder.stop", g))]
  ELSE [w EXCEPT !.threw = TRUE]

StopRecorderUnguarded(w) ==
  IF w.mediaRecorder # 0 THEN RecorderStop(w, w.mediaRecorder) ELSE w
StopRecorder(w) ==
  IF RecorderActive(w) THEN RecorderStop(w, w.mediaRecorder) ELSE w

StopTracks(w) ==
  IF w.localMediaStream # 0
  THEN [w EXCEPT !.streamState[w.localMediaStream] = "stopped",
                 !.released = Append(@, Release("track.stop", w.localMediaStream)),
                 !.localMediaStream = 0]
  ELSE w

StopAudioElement(w) ==
  [w EXCEPT !.audioElement = [srcObject |-> 0, muted |-> TRUE]]

CloseDataChannel(w) ==
  IF w.dataChannel # 0
  THEN [w EXCEPT !.dcState[w.dataChannel] = "closed",
                 !.released = Append(@, Release("dataChannel.close", w.dataChannel)),
                 !.dataChannel = 0]
  ELSE w

\* closing a peer connection closes the data channel created on it
ClosePeerConnection(w) ==
  IF w.peerConnection # 0
  THEN [w EXCEPT !.pcState[w.peerConnection] = "closed",
                 !.dcState[w.peerConnection] =
                     IF @ \in {"connecting", "open"} THEN "closed" ELSE @,
                 !.released = Append(@, Release("peerConnection.close", w.peerConnection)),
                 !.peerConnection = 0]
  ELSE w

ClearSessionAndData(w) ==
  [(IF w.session # NoSession
    THEN [w EXCEPT !.session = NoSession,
                   !.notes = Append(@, SessionUpdatedEvent(NoSession))]
    ELSE w) EXCEPT !.conversation = <<>>, !.audioChunks = <<>>]
ClearSession(w) ==
  IF w.session # NoSession
  THEN [w EXCEPT !.session = NoSession,
                 !.notes = Append(@, SessionUpdatedEvent(NoSession))]
  ELSE w

stop(w) ==
  ClearSession(ClosePeerConnection(CloseDataChannel(
    StopAudioElement(StopTracks(StopRecorder(w))))))

\* ------------------------------------------------------ history of a step
\* what a call hands back: nothing, a boolean, null or a Blob
NoReturn == [kind |-> "none", flag |-> FALSE, type |-> "none", data |-> <<>>]
Null == [NoReturn EXCEPT !.kind = "null"]
Boolean(b) == [NoReturn EXCEPT !.kind = "boolean", !.flag = b]

Op(op, g) ==
  [op |-> op, g |-> g, ev |-> NoEvent, threw |-> FALSE, ready |-> FALSE,
   settled |-> "none", returned |-> NoReturn,
   clientEvent |-> NoClientEvent, order |-> <<>>]

\* no run of deltas is under way
NoRun == [id |-> NoId, index |-> 0, text |-> <<>>, n |-> 0, kind |-> "none"]

Before ==
  [conversation |-> conversation, session |-> session,
   audioChunks |-> audioChunks]

\* a step of a start() call or of the host: it hands nothing to a channel
\* and the counters of inputs stay
Step(w, st, op) ==
  /\ Apply(w)
  /\ call' = st
  /\ last' = [op EXCEPT !.threw = w.threw]
  /\ pre' = Before
  /\ sent' = 0
  /\ UNCHANGED <<run, nEvents>>

\* ---------------------------------------------------------------- start()
\* the latest call can still run: it is neither settled nor waiting for the
\* open signal of a channel that has been closed
Running ==
  /\ call.pc \notin {"none", "resolved", "rejected"}
  /\ ~(call.pc = "awaitOpen" /\ dcState[call.g] = "closed")

Enter(c, stage) == [c EXCEPT !.stages = Append(@, stage)]

\* the catch block of start(): stop(), then rethrow
Reject(w, c, err, cause, origin) ==
  /\ Step(stop(w),
          [c EXCEPT !.pc = "rejected", !.err = err, !.cause = cause,
                    !.failed = IF @ = "none" THEN origin ELSE @,
                    !.failedAt = IF c.failed = "none" THEN Len(c.stages) ELSE @],
          [Op("startFailed", c.g) EXCEPT !.settled = "rejected"])
  /\ UNCHANGED createdAt

Continue(w, c, pc, op) ==
  /\ Step(w, [c EXCEPT !.pc = pc], Op(op, c.g))
  /\ UNCHANGED createdAt

\* start() up to the await of getUserMedia: the conversation is cleared and
\* initializePeerConnection creates the connection.  The caller starts a
\* session when no earlier call of start() can still run (with or without a
\* stop() since the last session); stop() may come at any time.
StartKeepsConversation ==
  /\ call.g < MaxStarts
  /\ ~Running
  /\ LET g == call.g + 1
     IN  /\ Apply([World EXCEPT !.pcState[g] = "open", !.peerConnection = g])
         /\ call' = [Enter(NoCall, "acquire") EXCEPT !.g = g, !.pc = "getUserMedia"]
         /\ last' = Op("start", g)
  /\ pre' = Before
  /\ sent' = 0
  /\ UNCHANGED <<createdAt, run, nEvents>>

StartCall ==
  /\ call.g < MaxStarts
  /\ ~Running
  /\ LET g == call.g + 1
     IN  /\ Apply([World EXCEPT !.conversation = <<>>,
                                !.pcState[g] = "open",
                                !.peerConnection = g])
         /\ call' = [Enter(NoCall, "acquire") EXCEPT !.g = g, !.pc = "getUserMedia"]
         /\ last' = Op("start", g)
  /\ pre' = Before
  /\ sent' = 0
  /\ createdAt' = <<>>
  /\ run' = NoRun
  /\ UNCHANGED nEvents

\* getUserMedia settles; on success start() runs on, without suspending,
\* through addTrack, initializeMediaRecorder and initializeDataChannel to the
\* createOffer of initializeSession
GetUserMediaOutcomes ==
  {"rejects", "recorderThrows", "recorderStartThrows", "createDataChannelThrows", "ok"}

GetUserMediaSettles ==
  \E outcome \in GetUserMediaOutcomes :
    /\ call.pc = "getUserMedia"
    /\ LET g == call.g
           w1 == [World EXCEPT !.streamState[g] = "live", !.localMediaStream = g]
           c1 == Enter(call, "recorder")
           w2 == [w1 EXCEPT !.recState[g] = "inactive",
                            !.mediaRecorder = g,
                            !.audioChunks = <<>>,
                            !.notes = Append(@, RecordedAudioChangedEvent(<<>>))]
           w3 == [w2 EXCEPT !.recState[g] = "recording"]
           c3 == Enter(c1, "dataChannel")
           w4 == [w3 EXCEPT !.dcState[g] = "connecting", !.dataChannel = g]
       IN  CASE outcome = "rejects" ->
                  Reject(World, call, "getUserMedia", "none", "getUserMedia")
             [] outcome # "rejects" /\ w1.peerConnection = 0 ->
                  Reject(w1, call, "TypeError", "none", "TypeError")
             [] outcome = "recorderThrows" /\ w1.peerConnection # 0 ->
                  Reject(w1, c1, "MediaRecorder", "none", "MediaRecorder")
             [] outcome = "recorderStartThrows" /\ w1.peerConnection # 0 ->
                  Reject(w2, c1, "MediaRecorder.start", "none", "MediaRecorder.start")
             [] outcome = "createDataChannelThrows" /\ w1.peerConnection # 0 ->
                  Continue(w3,
                           [Enter(c3, "session") EXCEPT
                              !.promise = "rejected",
                              !.failed = "createDataChannel",
                              !.failedAt = Len(c3.stages)],
                           "createOffer", "getUserMedia")
             [] outcome = "ok" /\ w1.peerConnection # 0 ->
                  Continue(w4,
                           [Enter(c3, "session") EXCEPT !.promise = "pending"],
                           "createOffer", "getUserMedia")

\* an awaited call of initializeSession settles: a rejection goes to the catch
\* block, a result lets the code run to its next await
CreateOfferSettles ==
  \E ok \in BOOLEAN :
    /\ call.pc = "createOffer"
    /\ IF ~ok THEN Reject(World, call, "createOffer", "none", "createOffer")
       ELSE IF peerConnection = 0
         THEN Reject(World, call, "TypeError", "none", "TypeError")
       ELSE Continue(World, call, "setLocalDescription", "createOffer")

SetLocalDescriptionSettles ==
  \E ok \in BOOLEAN :
    /\ call.pc = "setLocalDescription"
    /\ IF ~ok
       THEN Reject(World, call, "setLocalDescription", "none", "setLocalDescription")
       ELSE Continue(World, call, "getRealtimeEphemeralAPIKey", "setLocalDescription")

\* the key provider: a failure is wrapped, with the provider's error as cause;
\* a key that is not empty goes into the request that fetch sends.
\* key: what the provider gave; request: the key of the request sent
KeyOutcomes == {"key", "empty", "fails"}

EmptyKeyIsSent ==
  \E outcome \in KeyOutcomes :
    /\ call.pc = "getRealtimeEphemeralAPIKey"
    /\ CASE outcome = "fails" ->
              Reject(World, [call EXCEPT !.key = outcome],
                     "getRealtimeEphemeralAPIKey handler failed.",
                     "provider", "provider")
         [] outcome \in {"empty", "key"} ->
              Continue(World, [call EXCEPT !.key = outcome, !.request = outcome],
                       "fetch", "getRealtimeEphemeralAPIKey")
GetKeySettles ==
  \E outcome \in KeyOutcomes :
    /\ call.pc = "getRealtimeEphemeralAPIKey"
    /\ CASE outcome = "fails" ->
              Reject(World, [call EXCEPT !.key = outcome],
                     "getRealtimeEphemeralAPIKey handler failed.",
                     "provider", "provider")
         [] outcome = "empty" ->
              Reject(World, [call EXCEPT !.key = outcome],
                     "getRealtimeEphemeralAPIKey did not return an API key.",
                     "none", "getRealtimeEphemeralAPIKey did not return an API key.")
         [] outcome = "key" ->
              Continue(World, [call EXCEPT !.key = outcome, !.request = outcome],
                       "fetch", "getRealtimeEphemeralAPIKey")

FetchSettles ==
  \E ok \in BOOLEAN :
    /\ call.pc = "fetch"
    /\ IF ~ok THEN Reject(World, call, "fetch", "none", "fetch")
       ELSE Continue(World, call, "text", "fetch")

ResponseTextSettles ==
  \E ok \in BOOLEAN :
    /\ call.pc = "text"
    /\ IF ~ok THEN Reject(World, call, "text", "none", "text")
       ELSE IF peerConnection = 0
         THEN Reject(World, call, "TypeError", "none", "TypeError")
       ELSE Continue(World, call, "setRemoteDescription", "text")

ReturnsWithoutAwaitingOpen ==
  \E ok \in BOOLEAN :
    /\ call.pc = "setRemoteDescription"
    /\ IF ~ok
       THEN Reject(World, call, "setRemoteDescription", "none", "setRemoteDescription")
       ELSE /\ Step(World,
                    [Enter(call, "awaitOpen") EXCEPT !.pc = "resolved"],
                    [Op("setRemoteDescription", call.g) EXCEPT !.settled = "resolved"])
            /\ UNCHANGED createdAt

\* initializeSession returns; start() awaits the promise of the data channel
SetRemoteDescriptionSettles ==
  \E ok \in BOOLEAN :
    /\ call.pc = "setRemoteDescription"
    /\ IF ~ok
       THEN Reject(World, call, "setRemoteDescription", "none", "setRemoteDescription")
       ELSE IF call.promise = "rejected"
         THEN Reject(World, Enter(call, "awaitOpen"),
                     "createDataChannel", "none", "createDataChannel")
       ELSE Continue(World, Enter(call, "awaitOpen"), "awaitOpen",
                     "setRemoteDescription")

\* the open event of the data channel resolves the promise and start()
DataChannelOpen ==
  /\ call.pc = "awaitOpen"
  /\ dcState[call.g] = "connecting"
  /\ Step([World EXCEPT !.dcState[call.g] = "open"],
          [call EXCEPT !.pc = "resolved", !.promise = "resolved"],
          [Op("open", call.g) EXCEPT !.settled = "resolved"])
  /\ UNCHANGED createdAt

\* ------------------------------------------------- the public operations
\* stop() has no await: it runs to its end when it is called
Stop ==
  /\ Step(stop(World), call, Op("stop", 0))
  /\ UNCHANGED createdAt

\* sendClientEvent: the check of the field, then RTCDataChannel.send, which
\* throws InvalidStateError unless the channel is open
SendQueuesUntilOpen(w) ==
  IF w.dataChannel = 0 THEN [threw |-> TRUE, sent |-> 0]
  ELSE [threw |-> FALSE, sent |-> 1]
sendClientEvent(w) ==
  IF w.dataChannel = 0 THEN [threw |-> TRUE, sent |-> 0]
  ELSE IF w.dcState[w.dataChannel] # "open" THEN [threw |-> TRUE, sent |-> 0]
  ELSE [threw |-> FALSE, sent |-> 1]

SendClientEvent ==
  /\ LET r == sendClientEvent(World)
     IN  /\ sent' = r.sent
         /\ last' = [Op("sendClientEvent", 0) EXCEPT
                       !.threw = r.threw, !.ready = ChannelOpen(World)]
  /\ pre' = Before
  /\ Apply(World)
  /\ UNCHANGED <<call, createdAt, run, nEvents>>

\* new Blob(parts, {type}): the data of the parts, one after the other
RECURSIVE Blob(_, _)
Blob(parts, type) ==
  IF parts = <<>>
  THEN [kind |-> "blob", flag |-> FALSE, type |-> type, data |-> <<>>]
  ELSE [Blob(Tail(parts), type) EXCEPT !.data = Head(parts).data \o @]

getConversation(w) == w.conversation

hasRecordedAudioAvailable(w) == Len(w.audioChunks) > 0

ExportsNewestFirst(w) ==
  IF Len(w.audioChunks) = 0 THEN Null
  ELSE Blob([k \in 1..Len(w.audioChunks) |->
               w.audioChunks[Len(w.audioChunks) + 1 - k]], "audio/webm")
getRecordedAudio(w) ==
  IF Len(w.audioChunks) = 0 THEN Null
  ELSE Blob(w.audioChunks, "audio/webm")

\* the two read operations: they hand back a value and touch nothing
Returns(op, value) ==
  /\ Apply(World)
  /\ last' = [Op(op, 0) EXCEPT !.returned = value]
  /\ pre' = Before
  /\ sent' = 0
  /\ UNCHANGED <<call, createdAt, run, nEvents>>

HasRecordedAudioAvailable ==
  Returns("hasRecordedAudioAvailable", Boolean(hasRecordedAudioAvailable(World)))

GetRecordedAudio ==
  Returns("getRecordedAudio", getRecordedAudio(World))

\* ------------------------------------------------- what the properties read
\* the place at which a conversation.item.created event put its item
Arrival(at, item) == [at |-> at, id |-> item.id, role |-> item.role, type |-> item.type]

\* the transcript found at index content_index of the first item with item_id
NoTranscript == [def |-> FALSE, s |-> <<"no element">>]
TranscriptAt(conv, item_id, content_index) ==
  LET f == findConversationItemContent(conv, item_id, content_index)
  IN  IF f.found THEN conv[f.item].content[f.at].transcript ELSE NoTranscript

\* a slot that holds no transcript yet: no element, or an audio element whose
\* transcript is absent
Fresh(conv, item_id, content_index) ==
  LET f == findConversationItemContent(conv, item_id, content_index)
  IN  \/ ~f.found
      \/ /\ conv[f.item].content[f.at].type = "input_audio"
         /\ ~conv[f.item].content[f.at].transcript.def

\* the deltas d1..dN received in a row for one slot of an item that is in
\* the conversation, from a slot without transcript on
SlotKind(conv, item_id, content_index) ==
  LET it == findConversationItem(conv, item_id)
      f == findConversationItemContent(conv, item_id, content_index)
  IN  IF f.found THEN "audio without transcript"
      ELSE IF ~conv[it].hasContent THEN "no content"
      ELSE IF conv[it].content = <<>> THEN "empty content"
      ELSE "shorter content"
NextRun(r, conv, ev) ==
  IF ev.type # "response.audio_transcript.delta" THEN NoRun
  ELSE IF findConversationItem(conv, ev.item_id) = 0 THEN NoRun
  ELSE IF r.n > 0 /\ r.id = ev.item_id /\ r.index = ev.content_index
    THEN [r EXCEPT !.text = @ \o ev.delta, !.n = @ + 1]
  ELSE IF Fresh(conv, ev.item_id, ev.content_index)
    THEN [id |-> ev.item_id, index |-> ev.content_index, text |-> ev.delta,
          n |-> 1, kind |-> SlotKind(conv, ev.item_id, ev.content_index)]
  ELSE NoRun

\* ------------------------------------------------------ callbacks of the host
\* a chunk of recorded audio is named by its recorder, by its place in the
\* buffer and by the number of the start() call during which it was
\* captured, and holds the data the recorder delivered
ChunkData == {<<"x">>, <<"y">>, <<"y", "z">>}
Chunk(g, n, during) ==
  [recorder |-> g, n |-> n, during |-> during, data |-> <<"x">>]

\* the chunks of a buffer that hold the data a capture delivers
Captured(chunks) == SelectSeq(chunks, LAMBDA c : c.data = <<"x">>)

AddPrependsChunk(w, chunk) ==
  LET chunks == <<chunk>> \o w.audioChunks
  IN  [w EXCEPT !.audioChunks = chunks,
                !.notes = Append(@, RecordedAudioChangedEvent(chunks))]
addRecordedAudio(w, chunk) ==
  LET chunks == Append(w.audioChunks, chunk)
  IN  [w EXCEPT !.audioChunks = chunks,
                !.notes = Append(@, RecordedAudioChangedEvent(chunks))]

\* a message event of an open data channel, whichever session created the
\* channel (the listener is bound to the client): receiveServerMessage, which
\* has no await and so runs from the parse to the serverEvent in one task
ReceiveInterleavesCapture(ev) ==
  /\ nEvents < MaxEvents
  /\ \E g \in Gens :
       /\ dcState[g] = "open"
       /\ last' = [Op("message", g) EXCEPT !.ev = ev]
  /\ LET h == processServerEvent(conversation, session, ev)
         w1 == [World EXCEPT !.conversation = h.conversation,
                             !.session = h.session,
                             !.notes = h.notes]
         w2 == IF RecorderActive(w1) /\ Len(audioChunks) < MaxChunks
               THEN addRecordedAudio(w1, Chunk(mediaRecorder, Len(audioChunks) + 1, call.g))
               ELSE w1
     IN  Apply([w2 EXCEPT !.notes = Append(@, RealtimeServerEventEvent(ev))])
  /\ pre' = Before
  /\ createdAt' = IF ev.type = "conversation.item.created"
                  THEN Append(createdAt, Arrival(Len(conversation) + 1, ev.item))
                  ELSE createdAt
  /\ run' = NextRun(run, conversation, ev)
  /\ nEvents' = nEvents + 1
  /\ sent' = 0
  /\ UNCHANGED call

\* a session.created message of the client that takes sessionRequested:
\* its receiveServerMessage with the handler above; a send that raises
\* leaves the handler and the receiver before the serverEvent dispatch
ReceiveSessionCreated ==
  \E s \in CreatedSessions :
    /\ nEvents < MaxEvents
    /\ \E g \in Gens : dcState[g] = "open"
    /\ LET ev == SessionCreated(s)
           h == HandleSessionCreatedRequested(sessionRequested, ev)
           raised == h.send # <<>> /\ sendClientEvent(World).threw
       IN  /\ Apply([World EXCEPT
                       !.session = h.session,
                       !.notes = IF raised THEN h.notes
                                 ELSE Append(h.notes, RealtimeServerEventEvent(ev))])
           /\ sent' = IF raised THEN 0 ELSE Len(h.send)
           /\ last' = [Op("message", 0) EXCEPT
                         !.ev = ev,
                         !.threw = raised,
                         !.clientEvent = IF h.send # <<>> /\ ~raised
                                         THEN h.send[1] ELSE NoClientEvent,
                         !.order = IF raised THEN <<"sessionCreated">>
                                   ELSE Append(h.order, "serverEvent")]
    /\ pre' = Before
    /\ nEvents' = nEvents + 1
    /\ UNCHANGED <<call, createdAt, run>>

Receive(ev) ==
  /\ nEvents < MaxEvents
  /\ \E g \in Gens :
       /\ dcState[g] = "open"
       /\ last' = [Op("message", g) EXCEPT !.ev = ev]
  /\ LET r == receiveServerMessage(conversation, session, ev)
     IN  Apply([World EXCEPT !.conversation = r.conversation,
                             !.session = r.session,
                             !.notes = r.notes])
  /\ pre' = Before
  /\ createdAt' = IF ev.type = "conversation.item.created"
                  THEN Append(createdAt, Arrival(Len(conversation) + 1, ev.item))
                  ELSE createdAt
  /\ run' = NextRun(run, conversation, ev)
  /\ nEvents' = nEvents + 1
  /\ sent' = 0
  /\ UNCHANGED call

\* ondataavailable of a recorder: a chunk with data is added, an empty one is
\* dropped; a stopped recorder delivers what it still holds and then is silent
DataAvailable ==
  \E g \in Gens, size \in {0, 1} :
    /\ Len(Captured(audioChunks)) < MaxChunks
    /\ recState[g] \in {"recording", "flushing"}
    /\ LET w1 == [World EXCEPT !.recState[g] =
                                  IF @ = "flushing" THEN "inactive" ELSE @]
       IN  Apply(IF size > 0 THEN addRecordedAudio(w1, Chunk(g, Len(audioChunks) + 1, call.g))
                ELSE w1)
    /\ last' = [Op("dataavailable", g) EXCEPT !.ready = (size > 0)]
    /\ pre' = Before
    /\ sent' = 0
    /\ UNCHANGED <<call, createdAt, run, nEvents>>

\* ontrack of a connection whose remote description is set
OnTrack ==
  \E g \in Gens :
    /\ pcState[g] = "open"
    /\ g < call.g \/ call.pc \in {"awaitOpen", "resolved"}
    /\ audioElement # [srcObject |-> g, muted |-> FALSE]
    /\ Step([World EXCEPT !.audioElement = [srcObject |-> g, muted |-> FALSE]],
            call, Op("track", g))
    /\ UNCHANGED createdAt

\* the remote side or the network closes an open channel
DataChannelClosedByPeer ==
  \E g \in Gens :
    /\ dcState[g] = "open"
    /\ Step([World EXCEPT !.dcState[g] = "closed"], call, Op("channelClosed", g))
    /\ UNCHANGED createdAt

\* ------------------------------------------------------- specifications
\* the state after construction
Init ==
  /\ peerConnection = 0 /\ localMediaStream = 0
  /\ dataChannel = 0 /\ mediaRecorder = 0
  /\ audioChunks = <<>> /\ conversation = <<>> /\ session = NoSession
  /\ sessionRequested = NoRequest
  /\ compared = NoComparison
  /\ audioElement = [srcObject |-> 0, muted |-> FALSE]
  /\ pcState = [g \in Gens |-> "none"]
  /\ streamState = [g \in Gens |-> "none"]
  /\ recState = [g \in Gens |-> "none"]
  /\ dcState = [g \in Gens |-> "none"]
  /\ sent = 0
  /\ call = NoCall
  /\ last = Op("new", 0)
  /\ pre = Before
  /\ notes = <<>> /\ released = <<>> /\ createdAt = <<>> /\ run = NoRun
  /\ nEvents = 0

\* the events of the life-cycle specification
SessionEvents ==
  { SessionCreated(SessionX), SessionUpdated(SessionY),
    ItemCreated(Item("a1", "message", "user", FALSE, <<>>)) }

ReceiveServerMessage ==
  /\ nEvents < MaxMessages
  /\ \E ev \in SessionEvents : Receive(ev)

Next ==
  \/ StartCall
  \/ GetUserMediaSettles
  \/ CreateOfferSettles
  \/ SetLocalDescriptionSettles
  \/ GetKeySettles
  \/ FetchSettles
  \/ ResponseTextSettles
  \/ SetRemoteDescriptionSettles
  \/ DataChannelOpen
  \/ Stop
  \/ SendClientEvent
  \/ ReceiveServerMessage
  \/ DataAvailable
  \/ OnTrack
  \/ DataChannelClosedByPeer

Spec == Init /\ [][Next]_vars

\* the life cycle when every operation start() awaits settles, and a
\* channel that stays connecting while start() waits for it opens
Settles ==
  \/ GetUserMediaSettles
  \/ CreateOfferSettles
  \/ SetLocalDescriptionSettles
  \/ GetKeySettles
  \/ FetchSettles
  \/ ResponseTextSettles
  \/ SetRemoteDescriptionSettles

SpecFair == Spec /\ WF_vars(Settles) /\ WF_vars(DataChannelOpen)

\* the reconciliation engine on its own: the first start() has resolved, and
\* server events of every handled shape arrive on its channel
Started ==
  [NoCall EXCEPT !.g = 1, !.pc = "resolved", !.promise = "resolved",
                 !.stages = StageOrder, !.key = "key", !.request = "key"]

InitActive ==
  /\ peerConnection = 1 /\ localMediaStream = 1
  /\ dataChannel = 1 /\ mediaRecorder = 1
  /\ audioChunks = <<>> /\ conversation = <<>> /\ session = NoSession
  /\ sessionRequested = NoRequest
  /\ compared = NoComparison
  /\ audioElement = [srcObject |-> 0, muted |-> FALSE]
  /\ pcState = [g \in Gens |-> IF g = 1 THEN "open" ELSE "none"]
  /\ streamState = [g \in Gens |-> IF g = 1 THEN "live" ELSE "none"]
  /\ recState = [g \in Gens |-> IF g = 1 THEN "recording" ELSE "none"]
  /\ dcState = [g \in Gens |-> IF g = 1 THEN "open" ELSE "none"]
  /\ sent = 0
  /\ call = Started
  /\ last = [Op("open", 1) EXCEPT !.settled = "resolved"]
  /\ pre = Before
  /\ notes = <<>> /\ released = <<>> /\ createdAt = <<>> /\ run = NoRun
  /\ nEvents = 0

ServerEvents ==
  {ErrorEvent, TextDeltaEvent, UnhandledEvent}
  \cup { SessionCreated(s) : s \in Sessions }
  \cup { SessionUpdated(s) : s \in Sessions }
  \cup { ItemCreated(it) : it \in CreatedItems }
  \cup { TranscriptDelta(i, k, d) : i \in Ids, k \in ContentIndexes, d \in Deltas }
  \cup { TranscriptDone(i, k, t) : i \in Ids, k \in ContentIndexes, t \in Transcripts }
  \cup { TranscriptionCompleted(i, k, t) :
           i \in Ids, k \in ContentIndexes, t \in Transcripts }
  \cup { ResponseDone(FALSE, <<>>) }
  \cup { ResponseDone(TRUE, outs) : outs \in OutputLists }

\* the server events of a session, and the start() of a next session, which
\* clears the conversation while the channel of the session before stays open
NextEvent ==
  \/ \E ev \in ServerEvents : Receive(ev)
  \/ StartCall

SpecEvents == InitActive /\ [][NextEvent]_vars

\* server events and recorder callbacks of one session, as the event
\* loop of the host delivers them: one callback at a time
InterleavedEvents ==
  { SessionCreated(SessionX), SessionUpdated(SessionY),
    ItemCreated(Item("a1", "message", "user", FALSE, <<>>)),
    TranscriptDelta("a1", 0, <<"a">>),
    ResponseDone(TRUE, <<Item("a1", "message", "assistant", TRUE, <<TextElement>>),
                         Item("a2", "message", "assistant", TRUE, <<TextElement>>)>>) }

NextInterleaved ==
  \/ \E ev \in InterleavedEvents : Receive(ev)
  \/ DataAvailable

SpecInterleaved == InitActive /\ [][NextInterleaved]_vars

\* the client that takes sessionRequested, in a session whose channel is
\* open: session.created messages arrive
InitRequested ==
  /\ peerConnection = 1 /\ localMediaStream = 1
  /\ dataChannel = 1 /\ mediaRecorder = 1
  /\ audioChunks = <<>> /\ conversation = <<>> /\ session = NoSession
  /\ sessionRequested \in Requests
  /\ compared = NoComparison
  /\ audioElement = [srcObject |-> 0, muted |-> FALSE]
  /\ pcState = [g \in Gens |-> IF g = 1 THEN "open" ELSE "none"]
  /\ streamState = [g \in Gens |-> IF g = 1 THEN "live" ELSE "none"]
  /\ recState = [g \in Gens |-> IF g = 1 THEN "recording" ELSE "none"]
  /\ dcState = [g \in Gens |-> IF g = 1 THEN "open" ELSE "none"]
  /\ sent = 0
  /\ call = Started
  /\ last = [Op("open", 1) EXCEPT !.settled = "resolved"]
  /\ pre = Before
  /\ notes = <<>> /\ released = <<>> /\ createdAt = <<>> /\ run = NoRun
  /\ nEvents = 0

NextRequested == ReceiveSessionCreated

SpecRequested == InitRequested /\ [][NextRequested]_vars

\* the export operations on their own: a session is active and its buffer
\* holds any chunks the recorder may have delivered so far
Buffers ==
  UNION { [1..n -> ChunkData] : n \in 0..MaxBuffer }

BufferOf(ds) ==
  [k \in 1..Len(ds) |-> [Chunk(1, k, 1) EXCEPT !.data = ds[k]]]

\* the conversation and the session descriptor the session has by then
ExportConversations == {<<>>, <<Item("a1", "message", "user", FALSE, <<>>)>>}
ExportSessions == {NoSession, SessionX}

InitExport ==
  /\ peerConnection = 1 /\ localMediaStream = 1
  /\ dataChannel = 1 /\ mediaRecorder = 1
  /\ \E ds \in Buffers : audioChunks = BufferOf(ds)
  /\ conversation \in ExportConversations /\ session \in ExportSessions
  /\ sessionRequested = NoRequest
  /\ compared = NoComparison
  /\ audioElement = [srcObject |-> 0, muted |-> FALSE]
  /\ pcState = [g \in Gens |-> IF g = 1 THEN "open" ELSE "none"]
  /\ streamState = [g \in Gens |-> IF g = 1 THEN "live" ELSE "none"]
  /\ recState = [g \in Gens |-> IF g = 1 THEN "recording" ELSE "none"]
  /\ dcState = [g \in Gens |-> IF g = 1 THEN "open" ELSE "none"]
  /\ sent = 0
  /\ call = Started
  /\ last = [Op("open", 1) EXCEPT !.settled = "resolved"]
  /\ pre = Before
  /\ notes = <<>> /\ released = <<>> /\ createdAt = <<>> /\ run = NoRun
  /\ nEvents = 0

NextExport ==
  \/ HasRecordedAudioAvailable
  \/ GetRecordedAudio
  \/ DataAvailable
  \/ Stop

SpecExport == InitExport /\ [][NextExport]_vars

\* compareValuesIgnoreNullProperties on its own: two values, then the call
InitCompare ==
  /\ peerConnection = 0 /\ localMediaStream = 0
  /\ dataChannel = 0 /\ mediaRecorder = 0
  /\ audioChunks = <<>> /\ conversation = <<>> /\ session = NoSession
  /\ sessionRequested = NoRequest
  /\ \E a \in Values, b \in Values : compared = [NoComparison EXCEPT !.a = a, !.b = b]
  /\ audioElement = [srcObject |-> 0, muted |-> FALSE]
  /\ pcState = [g \in Gens |-> "none"]
  /\ streamState = [g \in Gens |-> "none"]
  /\ recState = [g \in Gens |-> "none"]
  /\ dcState = [g \in Gens |-> "none"]
  /\ sent = 0
  /\ call = NoCall
  /\ last = Op("new", 0)
  /\ pre = Before
  /\ notes = <<>> /\ released = <<>> /\ createdAt = <<>> /\ run = NoRun
  /\ nEvents = 0

Compare ==
  /\ ~compared.done
  /\ compared' = [compared EXCEPT
                    !.done = TRUE,
                    !.result = compareValuesIgnoreNullProperties(compared.a, compared.b)]
  /\ UNCHANGED <<fields, host, call, history>>

SpecCompare == InitCompare /\ [][Compare]_vars

\* ================================================================ claims
IsMessage(type) == last.op = "message" /\ last.ev.type = type

Present(conv, item_id) == findConversationItem(conv, item_id) # 0

\* the content sequence of an item, empty when the item has none
ContentOf(item) == IF item.hasContent THEN item.content ELSE <<>>

\* C1: after N response.audio_transcript.delta events d1..dN for one slot
\* (X, i) of an item in the conversation, the transcript of X's content
\* element at index i is d1 + ... + dN, whatever the slot held before (no
\* content sequence, an empty or a shorter one, an audio element without
\* transcript).
DeltaAccumulation ==
  run.n > 0 => TranscriptAt(conversation, run.id, run.index) = Str(run.text)

\* C2: a response.audio_transcript.done event with transcript T for the slot
\* (X, i) of an item in the conversation leaves the transcript of X's content
\* element at index i equal to T, whatever deltas came before.
DoneOverwrite ==
  (IsMessage("response.audio_transcript.done")
     /\ Present(pre.conversation, last.ev.item_id))
  => TranscriptAt(conversation, last.ev.item_id, last.ev.content_index)
       = Str(last.ev.transcript)

\* C3: the items put by conversation.item.created events stand in the
\* conversation in the order of arrival of their events, whatever other
\* events arrive in between, and the item appended by an event is the one
\* the event carries.
Ordering ==
  /\ \A k \in 1..Len(createdAt) :
       /\ createdAt[k].at \in 1..Len(conversation)
       /\ conversation[createdAt[k].at].id = createdAt[k].id
       /\ conversation[createdAt[k].at].role = createdAt[k].role
       /\ conversation[createdAt[k].at].type = createdAt[k].type
  /\ \A j, k \in 1..Len(createdAt) : j < k => createdAt[j].at < createdAt[k].at
  /\ IsMessage("conversation.item.created")
       => conversation = Append(pre.conversation, last.ev.item)

\* two creations with distinct ids, an item of another event between them
OrderingWitness ==
  /\ Len(createdAt) = 2
  /\ createdAt[1].id # createdAt[2].id
  /\ createdAt[1].at = 1
  /\ createdAt[2].at = 3
  /\ IsMessage("conversation.item.created")

\* the ids a response.done event refers to: those of its outputs
OutputIds(ev) == { ev.output[k].id : k \in 1..Len(ev.output) }

RefersToMissingItem ==
  \/ /\ \/ IsMessage("response.audio_transcript.delta")
        \/ IsMessage("response.audio_transcript.done")
        \/ IsMessage("conversation.item.input_audio_transcription.completed")
     /\ ~Present(pre.conversation, last.ev.item_id)
  \/ /\ IsMessage("response.done")
     /\ last.ev.hasOutput
     /\ last.ev.output # <<>>
     /\ \A i \in OutputIds(last.ev) : ~Present(pre.conversation, i)

\* C4, as stated: an event of the four kinds that refers to an item id that
\* is not in the conversation leaves the conversation as it was.
MissIsNonFatal ==
  RefersToMissingItem => conversation = pre.conversation

\* the outputs response.done works on, and the ids of the items it adds for
\* them when none of their ids is in the conversation
RECURSIVE AddedIds(_, _)
AddedIds(outs, seen) ==
  IF outs = <<>> THEN <<>>
  ELSE LET o == Head(outs)
       IN  IF o.type = "message" /\ o.hasContent /\ o.id \notin seen
           THEN <<o.id>> \o AddedIds(Tail(outs), seen \cup {o.id})
           ELSE AddedIds(Tail(outs), seen)

\* C4, amended: a delta, done or completed event whose item id is not in the
\* conversation leaves the conversation as it was; a response.done whose
\* output ids are not in the conversation leaves every item that was there
\* as it was and appends one new item per id of a message output with
\* content, in the order of the outputs.
MissAppendsOnlyForResponseDone ==
  RefersToMissingItem =>
    IF IsMessage("response.done")
    THEN /\ Len(conversation) >= Len(pre.conversation)
         /\ SubSeq(conversation, 1, Len(pre.conversation)) = pre.conversation
         /\ [k \in 1..(Len(conversation) - Len(pre.conversation)) |->
               conversation[Len(pre.conversation) + k].id]
              = AddedIds(last.ev.output, {})
    ELSE conversation = pre.conversation

\* a transcript event for an id that is not there, in a conversation that
\* holds another item
MissWitness ==
  /\ RefersToMissingItem
  /\ IsMessage("response.audio_transcript.done")
  /\ conversation # <<>>

\* C5: no two items of the conversation carry the same id.
UniqueIds ==
  \A j, k \in 1..Len(conversation) :
    j < k => conversation[j].id # conversation[k].id

\* the notifications of a kind dispatched by the last step
NotesOf(kinds) == { k \in 1..Len(notes) : notes[k].kind \in kinds }

\* C6: a step that changes the conversation, the session descriptor or the
\* recorded-audio buffer (the resets of start() and the clearing of stop()
\* among them) dispatches the notification of what it changed, once per
\* mutation, before the next step, and the notification shows the new value.
NotifiedMutations ==
  /\ conversation # pre.conversation =>
       /\ NotesOf({"conversationChanged"}) # {}
       /\ \E k \in NotesOf({"conversationChanged"}) :
            notes[k].conversation = conversation
       /\ ~IsMessage("response.done") =>
            Cardinality(NotesOf({"conversationChanged"})) = 1
  /\ session # pre.session =>
       /\ Cardinality(NotesOf({"sessionCreated", "sessionUpdated"})) = 1
       /\ \E k \in NotesOf({"sessionCreated", "sessionUpdated"}) :
            notes[k].session = session
  /\ audioChunks # pre.audioChunks =>
       /\ Cardinality(NotesOf({"recordedAudioChanged"})) = 1
       /\ \E k \in NotesOf({"recordedAudioChanged"}) :
            notes[k].chunks = audioChunks

\* C7: stop() never raises; called again right after a stop() it releases
\* nothing, dispatches nothing and leaves every field and every object as
\* the first call left them; called before any start() it releases nothing
\* and dispatches nothing.
IdempotentTeardown ==
  /\ last.op = "stop" => ~last.threw /\ stop(World) = World
  /\ last.op = "new" =>
       /\ ~stop(World).threw
       /\ stop(World).released = <<>>
       /\ stop(World).notes = <<>>

\* a stop() that found a session to tear down: it stopped the recorder and
\* the track, closed channel and connection and cleared the session
IdempotentTeardownWitness ==
  /\ last.op = "stop"
  /\ Len(released) = 4
  /\ notes = <<SessionUpdatedEvent(NoSession)>>
  /\ call.pc = "resolved"

\* C8: when start() rejects, no stage was run after the one that failed,
\* what the call acquired is released, the rejection is the failure that
\* happened first (or carries it as cause), and the client holds nothing.
StartupFailureCleanup ==
  last.settled = "rejected" =>
    /\ Len(call.stages) = call.failedAt
    /\ pcState[call.g] # "open"
    /\ streamState[call.g] # "live"
    /\ recState[call.g] # "recording"
    /\ dcState[call.g] \notin {"connecting", "open"}
    /\ call.err = call.failed \/ call.cause = call.failed
    /\ peerConnection = 0 /\ localMediaStream = 0 /\ dataChannel = 0
    /\ ~RecorderActive(World)
    /\ session = NoSession

IsPrefix(a, b) == Len(a) <= Len(b) /\ SubSeq(b, 1, Len(a)) = a

TransportNotReady ==
  /\ (last.op = "sendClientEvent" /\ ~last.ready) =>
       last.threw /\ sent = 0
  /\ last.op # "sendClientEvent" => sent = 0

\* a send during startup: the client holds a channel that is not open yet
TransportNotReadyWitness ==
  /\ last.op = "sendClientEvent"
  /\ last.threw
  /\ dataChannel # 0
  /\ dcState[dataChannel] = "connecting"

\* C11: a stop() releases the capture device, the data channel, the peer
\* connection and the playback sink whenever one was acquired before, so
\* that none is live after it, and it dispatches the session-cleared
\* notification (sessionUpdated without session) exactly when a session
\* descriptor was present.
StopReleasesAcquired ==
  last.op = "stop" =>
    /\ \A g \in Gens :
         /\ streamState[g] # "live"
         /\ dcState[g] \notin {"connecting", "open"}
         /\ pcState[g] # "open"
    /\ audioElement = [srcObject |-> 0, muted |-> TRUE]
    /\ session = NoSession
    /\ (pre.session # NoSession) <=> (notes = <<SessionUpdatedEvent(NoSession)>>)
    /\ (pre.session = NoSession) <=> (notes = <<>>)

\* C12: a session.created or session.updated event replaces the session
\* descriptor by its payload as a whole and dispatches one sessionCreated,
\* respectively one sessionUpdated, that carries it; no other server event
\* touches the descriptor or dispatches either notification, so that the
\* descriptor is the payload of the last such event and the notifications
\* come one per event in the order of arrival.
SessionReconciliation ==
  /\ IsMessage("session.created") =>
       /\ session = last.ev.session
       /\ notes = <<SessionCreatedEvent(last.ev.session),
                  RealtimeServerEventEvent(last.ev)>>
  /\ IsMessage("session.updated") =>
       /\ session = last.ev.session
       /\ notes = <<SessionUpdatedEvent(last.ev.session),
                  RealtimeServerEventEvent(last.ev)>>
  /\ (last.op = "message"
        /\ last.ev.type \notin {"session.created", "session.updated"}) =>
       /\ session = pre.session
       /\ NotesOf({"sessionCreated", "sessionUpdated"}) = {}

\* an update that leaves out a property the session held before
SessionReconciliationWitness ==
  /\ IsMessage("session.updated")
  /\ pre.session = SessionX
  /\ last.ev.session = SessionY
  /\ session = SessionY

\* the client holds no connection, channel or stream and no start() runs
Idle ==
  /\ peerConnection = 0 /\ dataChannel = 0 /\ localMediaStream = 0
  /\ ~Running

\* C13: the session descriptor is absent whenever the client is idle (after
\* construction, after a stop(), after a start() that failed) and when a
\* start() begins a session, before the session.created of that session.
SessionAbsentWhenIdle ==
  /\ Idle => session = NoSession
  /\ last.op \in {"new", "stop", "startFailed"} => session = NoSession
  /\ last.op = "start" => session = NoSession

\* the ids of the items of a conversation, in order
IdsOf(conv) == [k \in 1..Len(conv) |-> conv[k].id]

\* C14: the conversation is empty when a start() has begun, and every other
\* step keeps the items that were there in their places: the ids before the
\* step are a prefix of the ids after it.
ConversationLifecycle ==
  /\ last.op = "start" => conversation = <<>>
  /\ last.op # "start" => IsPrefix(IdsOf(pre.conversation), IdsOf(conversation))

\* a start() that cleared a conversation of two items
ConversationLifecycleWitness ==
  /\ last.op = "start"
  /\ Len(pre.conversation) = 2
  /\ conversation = <<>>

\* C15: every start() attempt empties the recorded-audio buffer, also one
\* that fails: once the attempt has settled the buffer holds only chunks
\* captured since it began; and no step other than the reset of a start()
\* removes or reorders chunks: a chunk is only added at the end.
BufferLifecycle ==
  /\ call.pc \in {"resolved", "rejected"} =>
       \A k \in 1..Len(audioChunks) : audioChunks[k].during = call.g
  /\ \/ IsPrefix(pre.audioChunks, audioChunks)
     \/ last.op \in {"getUserMedia", "startFailed"} /\ audioChunks = <<>>

\* the event types that have an entry in the dispatch table
HandledTypes ==
  {"error", "session.created", "session.updated", "conversation.item.created",
   "response.audio_transcript.delta", "response.text.delta", "response.done",
   "response.audio_transcript.done",
   "conversation.item.input_audio_transcription.completed"}

\* C16: a server message dispatches one serverEvent notification, which
\* carries the event received and comes after every other notification of
\* that message, whether its type has a handler or not; no other step
\* dispatches one; and an event whose type has no handler changes neither
\* session, conversation nor recorded-audio buffer and notifies nothing else.
RawPassthrough ==
  /\ last.op = "message" =>
       /\ notes # <<>>
       /\ notes[Len(notes)] = RealtimeServerEventEvent(last.ev)
       /\ NotesOf({"serverEvent"}) = {Len(notes)}
       /\ last.ev.type \notin HandledTypes =>
            /\ conversation = pre.conversation
            /\ session = pre.session
            /\ audioChunks = pre.audioChunks
            /\ Len(notes) = 1
  /\ last.op # "message" => NotesOf({"serverEvent"}) = {}

\* an event without handler arrives while the client holds a conversation
\* and a session
RawPassthroughWitness ==
  /\ last.op = "message"
  /\ last.ev.type \notin HandledTypes
  /\ conversation # <<>>
  /\ session # NoSession
  /\ notes = <<RealtimeServerEventEvent(last.ev)>>

\* the place of the data of chunk k in an export of the chunks
Offset(chunks, k) ==
  LET RECURSIVE upTo(_)
      upTo(j) == IF j = 0 THEN 0 ELSE upTo(j - 1) + Len(chunks[j].data)
  IN  upTo(k - 1)

\* C17: in every state getRecordedAudio() hands back null exactly when the
\* buffer is empty and hasRecordedAudioAvailable() true exactly when it is
\* not; an export that is not null holds the data of every chunk of the
\* buffer, in the order of the buffer, and nothing else; a call hands back
\* that value and changes no field, no host object and dispatches nothing.
ExportConsistency ==
  /\ [](/\ (getRecordedAudio(World) = Null) <=> (audioChunks = <<>>)
        /\ hasRecordedAudioAvailable(World) <=> (audioChunks # <<>>)
        /\ audioChunks # <<>> =>
             LET b == getRecordedAudio(World)
             IN  /\ b.kind = "blob"
                 /\ Len(b.data) = Offset(audioChunks, Len(audioChunks) + 1)
                 /\ \A k \in 1..Len(audioChunks) :
                      SubSeq(b.data, Offset(audioChunks, k) + 1,
                             Offset(audioChunks, k + 1)) = audioChunks[k].data
        /\ last.op = "getRecordedAudio" => last.returned = getRecordedAudio(World)
        /\ last.op = "hasRecordedAudioAvailable" =>
             last.returned = Boolean(audioChunks # <<>>))
  /\ [][last'.op \in {"getRecordedAudio", "hasRecordedAudioAvailable"} =>
         /\ UNCHANGED <<fields, host, call>>
         /\ notes' = <<>> /\ released' = <<>>]_vars

\* an export of two chunks that differ
ExportConsistencyWitness ==
  /\ last.op = "getRecordedAudio"
  /\ Len(audioChunks) = 2
  /\ audioChunks[1].data # audioChunks[2].data
  /\ last.returned.data = audioChunks[1].data \o audioChunks[2].data

\* the outputs a response.done works on: messages that have content
Processed(outs) ==
  SelectSeq([k \in 1..Len(outs) |-> k],
            LAMBDA k : outs[k].type = "message" /\ outs[k].hasContent)

\* the payloads of the conversationChanged notifications of the last step
Snapshots ==
  LET ks == SelectSeq([k \in 1..Len(notes) |-> k],
                      LAMBDA k : notes[k].kind = "conversationChanged")
  IN  [j \in 1..Len(ks) |-> notes[ks[j]].conversation]

\* C18: a conversationChanged notification carries the whole conversation
\* as getConversation() hands it back at the moment of the dispatch, the
\* mutation that caused it included: the one notification of an event is
\* the conversation after the event, and the j-th notification of a
\* response.done is the conversation after the j-th output it worked on.
SnapshotPayload ==
  /\ (last.op = "message" /\ last.ev.type # "response.done") =>
       \A j \in 1..Len(Snapshots) : Snapshots[j] = getConversation(World)
  /\ IsMessage("response.done") =>
       /\ \A j \in 1..Len(Snapshots) :
            j <= Len(Processed(last.ev.output))
            /\ Snapshots[j] =
                 ResponseDoneLoop(pre.conversation,
                                  SubSeq(last.ev.output, 1, Processed(last.ev.output)[j]),
                                  <<>>).conversation
       /\ Snapshots # <<>> => Snapshots[Len(Snapshots)] = getConversation(World)

\* a response.done that works on two outputs: two snapshots that differ,
\* each with the items that were there before
SnapshotPayloadWitness ==
  /\ IsMessage("response.done")
  /\ pre.conversation # <<>>
  /\ Len(Snapshots) = 2
  /\ Snapshots[1] # Snapshots[2]
  /\ Snapshots[2] = conversation

\* an output merged into a conversation: appended whole when its id is not
\* there, else its content entries put after the content of the item found
MergeOutput(conv, o) ==
  IF ~Present(conv, o.id) THEN Append(conv, o)
  ELSE LET m == findConversationItem(conv, o.id)
       IN  [k \in 1..Len(conv) |->
              IF k # m THEN conv[k]
              ELSE Item(conv[m].id, conv[m].type, conv[m].role, TRUE,
                        ContentOf(conv[m]) \o o.content)]

RECURSIVE MergeOutputs(_, _)
MergeOutputs(conv, outs) ==
  IF outs = <<>> THEN conv
  ELSE MergeOutputs(IF Head(outs).type = "message" /\ Head(outs).hasContent
                    THEN MergeOutput(conv, Head(outs)) ELSE conv,
                    Tail(outs))

\* C19: a response.done merges its outputs one after the other, each into
\* the conversation the outputs before it left: a message output with
\* content whose id is not in the conversation is appended whole as the
\* last item; one whose id is there leaves every item in place and gives
\* the item found its previous content followed by the content entries of
\* the output, in order; other outputs change nothing.
ResponseDoneMerge ==
  IsMessage("response.done") =>
    conversation = IF last.ev.hasOutput
                   THEN MergeOutputs(pre.conversation, last.ev.output)
                   ELSE pre.conversation

\* an output for an item that already holds content: the item keeps what it
\* held and gains the entry of the output after it
ResponseDoneMergeWitness ==
  /\ IsMessage("response.done")
  /\ Len(last.ev.output) = 1
  /\ Len(pre.conversation) = 1
  /\ pre.conversation[1].id = last.ev.output[1].id
  /\ pre.conversation[1].content = <<TextElement>>
  /\ conversation[1].content = <<TextElement, TextElement>>

\* C20: a response.done dispatches one conversationChanged per output it
\* works on (a message with content), none for an output it skips and none
\* when the response has no output list; an output after a skipped one is
\* worked on all the same.
ResponseDoneNotifications ==
  IsMessage("response.done") =>
    /\ Cardinality(NotesOf({"conversationChanged"})) =
         IF last.ev.hasOutput THEN Len(Processed(last.ev.output)) ELSE 0
    /\ Len(notes) = Cardinality(NotesOf({"conversationChanged"})) + 1
    /\ last.ev.hasOutput =>
         \A j \in 1..Len(Processed(last.ev.output)) :
           Present(conversation, last.ev.output[Processed(last.ev.output)[j]].id)

\* a skipped output followed by one that is worked on
ResponseDoneNotificationsWitness ==
  /\ IsMessage("response.done")
  /\ Len(last.ev.output) = 2
  /\ last.ev.output[1].type = "function_call"
  /\ Processed(last.ev.output) = <<2>>
  /\ ~Present(pre.conversation, last.ev.output[2].id)
  /\ Present(conversation, last.ev.output[2].id)
  /\ Cardinality(NotesOf({"conversationChanged"})) = 1

\* C21: a notification is dispatched right after the mutation it reports
\* and shows the state of that moment: the k-th conversationChanged of a
\* response.done shows the outputs 1..k merged and none of the later ones;
\* the notification of any other event shows the conversation, the session
\* or the buffer as the step left it.
SynchronousDelivery ==
  /\ (IsMessage("response.done") /\ last.ev.hasOutput) =>
       /\ Len(Snapshots) = Len(Processed(last.ev.output))
       /\ \A k \in 1..Len(Snapshots) :
            Snapshots[k] =
              MergeOutputs(pre.conversation,
                           SubSeq(last.ev.output, 1, Processed(last.ev.output)[k]))
  /\ ~IsMessage("response.done") =>
       /\ \A k \in NotesOf({"conversationChanged"}) :
            notes[k].conversation = conversation
       /\ \A k \in NotesOf({"sessionCreated", "sessionUpdated"}) :
            notes[k].session = session
       /\ \A k \in NotesOf({"recordedAudioChanged"}) :
            notes[k].chunks = audioChunks

\* two outputs with ids that are not in the conversation: the first
\* notification shows one new item, the second shows both
SynchronousDeliveryWitness ==
  /\ IsMessage("response.done")
  /\ Len(Snapshots) = 2
  /\ Len(Snapshots[1]) = Len(pre.conversation) + 1
  /\ Len(Snapshots[2]) = Len(pre.conversation) + 2
  /\ ~Present(Snapshots[1], last.ev.output[2].id)

\* a done or completed transcript event
IsCompletedTranscript ==
  \/ IsMessage("response.audio_transcript.done")
  \/ IsMessage("conversation.item.input_audio_transcription.completed")

\* C22: a done or completed transcript event with transcript T for an item
\* that is in the conversation and holds no content element at the event's
\* content_index (no content sequence, an empty one, one that is too short)
\* gives the item one more content element, an audio element with
\* transcript T, after the elements it held, which stay as they were; no
\* other item changes.
CompletedTranscriptSynthesis ==
  (IsCompletedTranscript
     /\ Present(pre.conversation, last.ev.item_id)
     /\ ~findConversationItemContent(pre.conversation, last.ev.item_id,
                                     last.ev.content_index).found) =>
    LET m == findConversationItem(pre.conversation, last.ev.item_id)
        old == pre.conversation[m]
    IN  /\ Len(conversation) = Len(pre.conversation)
        /\ \A k \in 1..Len(conversation) :
             k # m => conversation[k] = pre.conversation[k]
        /\ conversation[m].id = old.id
        /\ conversation[m].type = old.type
        /\ conversation[m].role = old.role
        /\ conversation[m].hasContent
        /\ Len(conversation[m].content) = Len(ContentOf(old)) + 1
        /\ SubSeq(conversation[m].content, 1, Len(ContentOf(old))) = ContentOf(old)
        /\ conversation[m].content[Len(ContentOf(old)) + 1] =
             AudioElement(Str(last.ev.transcript))

\* a done event for index 1 of an item that holds no content sequence
CompletedTranscriptSynthesisWitness ==
  /\ IsMessage("response.audio_transcript.done")
  /\ last.ev.content_index = 1
  /\ Len(pre.conversation) = 2
  /\ Present(pre.conversation, last.ev.item_id)
  /\ ~pre.conversation[findConversationItem(pre.conversation, last.ev.item_id)].hasContent
  /\ conversation[findConversationItem(conversation, last.ev.item_id)].content =
       <<AudioElement(Str(last.ev.transcript))>>

\* the last event is a transcript event (delta, done or completed) for a
\* content element that exists and is not an audio element
ShapeMismatch ==
  /\ IsCompletedTranscript \/ IsMessage("response.audio_transcript.delta")
  /\ LET f == findConversationItemContent(pre.conversation, last.ev.item_id,
                                          last.ev.content_index)
     IN  f.found /\ pre.conversation[f.item].content[f.at].type # "input_audio"

\* C23: a delta, done or completed transcript event for a content element
\* that exists and is not an audio element leaves the conversation (and the
\* session) as it was, and the handler returns: the serverEvent of the
\* message is dispatched.
ShapeMismatchAborts ==
  ShapeMismatch =>
    /\ conversation = pre.conversation
    /\ session = pre.session
    /\ notes[Len(notes)] = RealtimeServerEventEvent(last.ev)

\* a delta for a text element
ShapeMismatchAbortsWitness ==
  /\ ShapeMismatch
  /\ IsMessage("response.audio_transcript.delta")
  /\ conversation[findConversationItem(conversation, last.ev.item_id)].content
       = <<TextElement>>

\* the lookups the properties try on a conversation: every id of the wire
\* and one that no item carries, every index of the wire and one past them
LookupIds == Ids \cup {"a3"}
LookupIndexes == ContentIndexes \cup {2}

\* C24: on every conversation the client builds and for every id and index,
\* findConversationItemContent hands back the first item that carries the
\* id and, with it, the element at that index of the content the item holds
\* now; no item when none carries the id; the item without element when the
\* item has no content sequence or the index is past its end.  A lookup that
\* finds no item leaves the conversation as it was.
Locator ==
  /\ \A id \in LookupIds, i \in LookupIndexes :
       LET f == findConversationItemContent(conversation, id, i)
       IN  /\ (\A k \in 1..Len(conversation) : conversation[k].id # id) =>
                f.item = 0 /\ ~f.found
           /\ (\E k \in 1..Len(conversation) : conversation[k].id = id) =>
                /\ f.item \in 1..Len(conversation)
                /\ conversation[f.item].id = id
                /\ \A j \in 1..(f.item - 1) : conversation[j].id # id
                /\ f.found <=> (conversation[f.item].hasContent
                                  /\ i < Len(conversation[f.item].content))
                /\ f.found => f.at = i + 1
  /\ (IsMessage("response.audio_transcript.delta")
        /\ ~Present(pre.conversation, last.ev.item_id)) =>
       conversation = pre.conversation

\* two items carry one id, and the first holds at index 1 an element that a
\* patch put there
LocatorWitness ==
  /\ Len(conversation) = 2
  /\ conversation[1].id = conversation[2].id
  /\ ContentOf(conversation[2]) = <<>>
  /\ LET f == findConversationItemContent(conversation, conversation[1].id, 1)
     IN  /\ f.item = 1 /\ f.found /\ f.at = 2
         /\ conversation[1].content[2] = AudioElement(Str(<<"T">>))

\* C25: an error event and a response.text.delta event leave the session
\* descriptor, the conversation and the recorded-audio buffer as they were
\* and dispatch the serverEvent of the message and nothing else.
NoOpEvents ==
  (IsMessage("error") \/ IsMessage("response.text.delta")) =>
    /\ session = pre.session
    /\ conversation = pre.conversation
    /\ audioChunks = pre.audioChunks
    /\ notes = <<RealtimeServerEventEvent(last.ev)>>

\* an error event in a session that holds a descriptor and an item
NoOpEventsWitness ==
  /\ IsMessage("error")
  /\ session # NoSession
  /\ conversation # <<>>
  /\ notes = <<RealtimeServerEventEvent(ErrorEvent)>>

SettleOps ==
  {"getUserMedia", "createOffer", "setLocalDescription",
   "getRealtimeEphemeralAPIKey", "fetch", "text", "setRemoteDescription",
   "startFailed"}

\* an awaited operation of the latest start() has just settled, and a stop()
\* had come while the call was suspended: the client holds no connection
SettledAfterStop ==
  /\ last.op \in SettleOps
  /\ last.g = call.g
  /\ peerConnection = 0

\* C27: when stop() came while start() was suspended, then once the awaited
\* operation has settled start() rejects (at the latest when the session
\* negotiation still under way dereferences the connection), and no capture
\* stream, recording recorder, data channel or peer connection of the call
\* remains live.
StopDuringStartup ==
  SettledAfterStop =>
    /\ call.pc \in {"rejected", "getRealtimeEphemeralAPIKey", "fetch", "text"}
    /\ streamState[call.g] # "live"
    /\ recState[call.g] # "recording"
    /\ dcState[call.g] \notin {"connecting", "open"}
    /\ pcState[call.g] # "open"

\* two values are the same value: the same primitive, or objects of the
\* same structure
SameValue(a, b) == a.kind = b.kind /\ a.val = b.val

\* the requested parameters whose value differs from the created session's
Differing ==
  { k \in OwnKeys(sessionRequested) :
      ~SameValue(sessionRequested[k], session.parameters[k]) }

\* C28: on session.created the sessionCreated notification comes first;
\* then, when a requested parameter differs from its value on the created
\* session, one session.update is sent that carries exactly the differing
\* parameters with the requested values, and when none differs no client
\* event is sent.
SessionReRequest ==
  IsMessage("session.created") =>
    /\ last.order[1] = "sessionCreated"
    /\ notes[1] = SessionCreatedEvent(last.ev.session)
    /\ IF Differing # {}
       THEN /\ sent = 1
            /\ last.clientEvent.type = "session.update"
            /\ OwnKeys(last.clientEvent.session) = Differing
            /\ \A k \in Differing :
                 last.clientEvent.session[k] = sessionRequested[k]
       ELSE sent = 0

\* C29: when every operation it awaits settles, each call of start()
\* settles: it does not stay pending forever, whether its data channel
\* opens or is closed before it opens.
StartupTermination ==
  \A g \in Gens :
    (call.g = g /\ call.pc \notin {"resolved", "rejected"})
      ~> (call.g = g /\ call.pc \in {"resolved", "rejected"})

\* the objects of a kind that are live: acquired and not released
Live(states, live) == { g \in Gens : states[g] \in live }

\* C30: at most one peer connection, one data channel, one capture stream
\* and one recording recorder of the client are live at any time; after a
\* stop() none that was ever acquired is live, whatever calls of start()
\* and stop() came before; and a message on the channel of an earlier
\* session does not change the conversation of a later one.
SingleLiveSession ==
  /\ Cardinality(Live(pcState, {"open"})) <= 1
  /\ Cardinality(Live(dcState, {"connecting", "open"})) <= 1
  /\ Cardinality(Live(streamState, {"live"})) <= 1
  /\ Cardinality(Live(recState, {"recording"})) <= 1
  /\ last.op = "stop" =>
       /\ Live(pcState, {"open"}) = {}
       /\ Live(dcState, {"connecting", "open"}) = {}
       /\ Live(streamState, {"live"}) = {}
       /\ Live(recState, {"recording"}) = {}
  /\ (last.op = "message" /\ last.g < call.g) =>
       conversation = pre.conversation

\* the last event is a transcript event (delta, done or completed) for an
\* item of the conversation that held no content element at the event's
\* content_index: the handler synthesizes one
Synthesizes ==
  /\ IsCompletedTranscript \/ IsMessage("response.audio_transcript.delta")
  /\ Present(pre.conversation, last.ev.item_id)
  /\ ~findConversationItemContent(pre.conversation, last.ev.item_id,
                                  last.ev.content_index).found

\* the text the synthesized element of the last event carries
SynthesizedText ==
  IF IsMessage("response.audio_transcript.delta")
    THEN last.ev.delta ELSE last.ev.transcript

\* C31: when a delta, done or completed transcript event for item X and
\* content_index i synthesizes a content element because none was found, a
\* lookup of (X, i) right after the event returns the synthesized element:
\* the element is at index i, also when i is past the end of the content
\* the item held.
SynthesizedSlotPosition ==
  Synthesizes =>
    LET f == findConversationItemContent(conversation, last.ev.item_id,
                                         last.ev.content_index)
    IN  /\ f.found
        /\ conversation[f.item].content[f.at] = AudioElement(Str(SynthesizedText))

\* the last event is a transcript event (delta, done or completed) whose
\* handler aborted: no item carries its item_id, or the content element at
\* its content_index is not an audio element
TranscriptAborted ==
  /\ IsCompletedTranscript \/ IsMessage("response.audio_transcript.delta")
  /\ ~Present(pre.conversation, last.ev.item_id) \/ ShapeMismatch

\* C32: a server event dispatches conversationChanged only when it changed
\* the conversation; a delta, done or completed transcript event that
\* aborted on a lookup miss or on a shape mismatch dispatches none.
NoSpuriousNotification ==
  /\ (last.op = "message" /\ NotesOf({"conversationChanged"}) # {}) =>
       conversation # pre.conversation
  /\ TranscriptAborted => NotesOf({"conversationChanged"}) = {}

\* C33: a delta, done or completed transcript event for item X and
\* content_index i changes at most the transcript of X's content element at
\* index i, or appends one element to X's content; the number of items,
\* every other item, X's id, role and type and every other content element
\* of X stay as they were.
PatchLocality ==
  (IsCompletedTranscript \/ IsMessage("response.audio_transcript.delta")) =>
    LET m == findConversationItem(pre.conversation, last.ev.item_id)
        i == last.ev.content_index + 1
    IN  /\ Len(conversation) = Len(pre.conversation)
        /\ \A k \in 1..Len(conversation) :
             k # m => conversation[k] = pre.conversation[k]
        /\ m # 0 =>
             LET old == ContentOf(pre.conversation[m])
                 new == ContentOf(conversation[m])
             IN  /\ conversation[m].id = pre.conversation[m].id
                 /\ conversation[m].role = pre.conversation[m].role
                 /\ conversation[m].type = pre.conversation[m].type
                 /\ \/ /\ Len(new) = Len(old)
                       /\ \A j \in 1..Len(old) :
                            IF j = i
                              THEN new[j] = [old[j] EXCEPT !.transcript = new[j].transcript]
                              ELSE new[j] = old[j]
                    \/ /\ Len(new) = Len(old) + 1
                       /\ SubSeq(new, 1, Len(old)) = old

\* a delta for index 0 of an item that holds two audio elements extends
\* the first and leaves the second
PatchLocalityWitness ==
  /\ IsMessage("response.audio_transcript.delta")
  /\ last.ev.content_index = 0
  /\ LET m == findConversationItem(pre.conversation, last.ev.item_id)
     IN  /\ m # 0
         /\ Len(ContentOf(pre.conversation[m])) = 2
         /\ pre.conversation[m].content[2].type = "input_audio"
         /\ conversation[m].content[1] # pre.conversation[m].content[1]
         /\ conversation[m].content[2] = pre.conversation[m].content[2]

\* the steps that belong to a call of start()
StartOps == {"start", "getUserMedia", "startFailed"}

\* C34: stop() leaves the conversation and the recorded-audio buffer as
\* they were, so getConversation() and getRecordedAudio() hand back after
\* it what they handed back before it; the conversation and the buffer are
\* emptied only by a step of a later start().
StopKeepsData ==
  /\ last.op = "stop" =>
       /\ conversation = pre.conversation
       /\ audioChunks = pre.audioChunks
       /\ getConversation(World) = getConversation(pre)
       /\ getRecordedAudio(World) = getRecordedAudio(pre)
       /\ hasRecordedAudioAvailable(World) = hasRecordedAudioAvailable(pre)
  /\ (pre.conversation # <<>> /\ conversation = <<>>) => last.op = "start"
  /\ (pre.audioChunks # <<>> /\ audioChunks = <<>>) => last.op \in StartOps

\* a stop() that ends a session which holds an item and a chunk
StopKeepsDataWitness ==
  /\ last.op = "stop"
  /\ released # <<>>
  /\ conversation # <<>>
  /\ getRecordedAudio(World) # Null

\* the key provider of the latest call of start() threw, rejected or gave
\* an empty key
KeyFailed == call.key \in {"empty", "fails"}

CaptureCallback ==
  last.op = "dataavailable" =>
    /\ last.ready =>
         /\ Len(audioChunks) = Len(pre.audioChunks) + 1
         /\ SubSeq(audioChunks, 1, Len(pre.audioChunks)) = pre.audioChunks
         /\ audioChunks[Len(audioChunks)].recorder = last.g
         /\ notes = <<RecordedAudioChangedEvent(audioChunks)>>
    /\ ~last.ready =>
         /\ audioChunks = pre.audioChunks
         /\ notes = <<>>
    /\ conversation = pre.conversation
    /\ session = pre.session

\* a chunk captured in a session that holds an item, a descriptor and a
\* buffer of two other chunks
CaptureCallbackWitness ==
  /\ last.op = "dataavailable"
  /\ last.ready
  /\ Len(pre.audioChunks) = 2
  /\ Captured(pre.audioChunks) = <<>>
  /\ Captured(audioChunks) = <<audioChunks[3]>>
  /\ conversation # <<>>
  /\ session # NoSession

\* equality that ignores properties which are null or undefined: a key that
\* is null, undefined or absent on one side must be so on the other side;
\* every other key must carry values that are equal in this sense; values
\* that are not both objects are deep-equal
RECURSIVE EqualIgnoringNull(_, _)
EqualIgnoringNull(a, b) ==
  IF a.t = "object" /\ b.t = "object"
    THEN \A key \in DOMAIN a.props \cup DOMAIN b.props :
           IF LooseNull(Get(a, key)) \/ LooseNull(Get(b, key))
             THEN LooseNull(Get(a, key)) /\ LooseNull(Get(b, key))
             ELSE EqualIgnoringNull(Get(a, key), Get(b, key))
    ELSE isEqual(a, b)

\* C37: compareValuesIgnoreNullProperties(a, b) counts a property as equal
\* when one side holds it null or undefined and the other side lacks it or
\* holds it null or undefined, and is deep equality otherwise; the result
\* is the same for (b, a), and two objects that differ in a property which
\* is not null are not reported equal.
NullTolerantCompare ==
  compared.done =>
    /\ compared.result = EqualIgnoringNull(compared.a, compared.b)
    /\ compared.result = compareValuesIgnoreNullProperties(compared.b, compared.a)
    /\ (/\ compared.a.t = "object" /\ compared.b.t = "object"
        /\ \E key \in PropertyKeys :
             /\ ~LooseNull(Get(compared.a, key)) \/ ~LooseNull(Get(compared.b, key))
             /\ ~EqualIgnoringNull(Get(compared.a, key), Get(compared.b, key)))
         => ~compared.result

====
